---------------------------- MODULE Spec2Model ----------------------------
(***************************************************************************)
(* Express + Mongoose restaurant API (src/app.js): user signup / login /   *)
(* logout / self-delete, the JWT auth middleware and the restaurant CRUD   *)
(* and search routes.                                                      *)
(*                                                                         *)
(* Every HTTP request occupies a slot of `req` from its arrival to its     *)
(* response.  A handler is cut at its `await`s: the synchronous code up to *)
(* an await and the store / bcrypt call the await waits for are one step   *)
(* each, so two requests interleave exactly where Node lets them.          *)
(***************************************************************************)
EXTENDS Integers, Sequences, FiniteSets, TLC

(* ------------------------------ bounds -------------------------------- *)
NSlots == 2            \* requests in flight at the same time
MaxUsers == 2          \* user documents ever constructed (ObjectIds handed out)
MaxTokens == 1         \* tokens held by clients at the same time
MaxSkew == 1           \* the clock is sampled at 0..MaxSkew and at 3600..3600+MaxSkew
NSalts == 1            \* salts bcrypt draws from
MaxRestaurants == 2    \* restaurant documents ever constructed

(* ------------------------- program constants -------------------------- *)
ExpiresIn == 3600      \* expiresIn: '1h', in seconds
SaltRounds == 10       \* bcrypt.hash(password, 10)

JWT_SECRET == "JWT_SECRET"
Emails == {"e1", "e2"}
Passwords == {"p1", "p2"}
Slots == 1..NSlots
\* the clock is sampled around the start and around the expiry of a token
\* issued near the start
Instants == (0..MaxSkew) \cup (ExpiresIn..(ExpiresIn + MaxSkew))

VARIABLES
  users,        \* the Users collection: a set of user documents
  nextUid,      \* the next ObjectId a new Users document gets
  now,          \* the clock, in seconds
  issued,       \* the tokens login has returned and clients still hold
  restaurants,  \* the Restaurant collection: a set of restaurant documents
  nextRid,      \* the next ObjectId a new Restaurant document gets
  req,          \* req[r]: the request in slot r and how far its handler is
  loggedOut,    \* the tokens clients have sent along with a POST /logout
  trace         \* the statuses the scripted client has received, in order

vars == <<users, nextUid, now, issued, restaurants, nextRid, req, loggedOut, trace>>

(* ------------------------------- values ------------------------------- *)
NoHash == [salt |-> 0, rounds |-> 0, digest |-> <<>>]
NoUser == [id |-> 0, email |-> "", password |-> NoHash]
NoTok == [userId |-> 0, email |-> "", iat |-> 0, exp |-> 0, sig |-> ""]

\* The characters of an Authorization header.  A header is a sequence of
\* atoms: the space, a word without spaces, or the text of a token.
Space == [w |-> " ", t |-> NoTok]
Word(s) == [w |-> s, t |-> NoTok]
TokAtom(tok) == [w |-> "", t |-> tok]
NoHeader == [present |-> FALSE, text |-> <<>>]
Header(text) == [present |-> TRUE, text |-> text]
\* Authorization: Bearer <token>
Bearer(tok) == Header(<<Word("Bearer"), Space, TokAtom(tok)>>)
\* a token with the same payload signed with another key
Forged(tok) == [tok EXCEPT !.sig = "other"]

\* Strings of restaurant fields and search parameters are sequences of
\* characters; Absent is a field or parameter that is not there.
Absent == <<"undefined">>
NoDoc == [id |-> 0, name |-> Absent, cuisine |-> Absent]
NoBody == [name |-> Absent, cuisine |-> Absent]
\* a path parameter :id that is no ObjectId (findById throws a CastError)
BadId == -1

Idle ==
  [route |-> "none", stage |-> "idle", hdr |-> NoHeader,
   email |-> "", password |-> "", id |-> 0, body |-> NoBody,
   user |-> NoTok, tmp |-> NoUser, doc |-> NoDoc,
   next |-> 0, status |-> 0, msg |-> "", token |-> NoTok, docs |-> {}]

\* res.status(code).json({error | message: text})
Respond(q, code, text) == [q EXCEPT !.stage = "done", !.status = code, !.msg = text]

\* a rejected promise nothing catches: the handler stops where it is, the
\* request never gets a response
Unhandled(q) == [q EXCEPT !.stage = "unhandledRejection"]

(* ------------------------------- bcrypt ------------------------------- *)
\* bcrypt.hash(password, 10): a salted one-way hash; the salt is drawn at
\* random and kept in the hash string
BcryptHash(password, salt) ==
  [salt |-> salt, rounds |-> SaltRounds, digest |-> <<password, salt, SaltRounds>>]

\* bcrypt.compare(password, hash): rehash with the salt of the hash
BcryptCompare(password, hash) ==
  BcryptHash(password, hash.salt).digest = hash.digest

(* -------------------------------- jwt --------------------------------- *)
\* jwt.sign({userId, email}, secret, {expiresIn: '1h'})
JwtSign(userId, email, secret, t) ==
  [userId |-> userId, email |-> email, iat |-> t, exp |-> t + ExpiresIn,
   sig |-> secret]

\* the text is one well-formed token
JwtWellFormed(seg) == Len(seg) = 1 /\ seg[1].t # NoTok

\* (mutant) a token is still good at the second of its expiry
JwtVerifyErrLate(seg, secret, t) ==
  \/ ~(Len(seg) = 1 /\ seg[1].t # NoTok)
  \/ seg[1].t.sig # secret
  \/ t > seg[1].t.exp

\* jwt.verify(token, secret, callback): err for a malformed text, a bad
\* signature or an expired token (the clock has reached exp)
JwtVerifyErr(seg, secret, t) ==
  \/ ~JwtWellFormed(seg)
  \/ seg[1].t.sig # secret
  \/ t >= seg[1].t.exp

\* the decoded payload handed to the callback
JwtDecoded(seg) == seg[1].t

(* ------------------------ authenticateToken --------------------------- *)
\* String.prototype.split(' '): the pieces between the spaces
RECURSIVE SplitFrom(_, _, _)
SplitFrom(text, i, cur) ==
  IF i > Len(text) THEN <<cur>>
  ELSE IF text[i] = Space THEN <<cur>> \o SplitFrom(text, i + 1, <<>>)
  ELSE SplitFrom(text, i + 1, Append(cur, text[i]))

Split(text) == SplitFrom(text, 1, <<>>)

\* req.headers['authorization'] && req.headers['authorization'].split(' ')[1]
\* <<>> stands for every falsy value (undefined, '')
ExtractToken(hdr) ==
  IF ~hdr.present \/ hdr.text = <<>> THEN <<>>
  ELSE IF Len(Split(hdr.text)) < 2 THEN <<>>
  ELSE Split(hdr.text)[2]

\* (mutant) a middleware with a revocation list: a token that was sent with
\* a logout is refused
authenticateTokenRevoking(q, t) ==
  IF ExtractToken(q.hdr) = <<>>
    THEN [q EXCEPT !.stage = "done", !.status = 403, !.msg = "Token is required"]
  ELSE IF \/ JwtVerifyErr(ExtractToken(q.hdr), JWT_SECRET, t)
          \/ JwtDecoded(ExtractToken(q.hdr)) \in loggedOut
    THEN [q EXCEPT !.stage = "done", !.status = 403, !.msg = "Invalid token"]
  ELSE [q EXCEPT !.stage = "op", !.next = q.next + 1,
                 !.user = JwtDecoded(ExtractToken(q.hdr))]

\* (mutant) the 'Invalid token' branch without its return: the response is
\* sent and the handler is entered all the same
authenticateTokenNoReturn(q, t) ==
  IF ExtractToken(q.hdr) = <<>>
    THEN [q EXCEPT !.stage = "done", !.status = 403, !.msg = "Token is required"]
  ELSE IF JwtVerifyErr(ExtractToken(q.hdr), JWT_SECRET, t)
    THEN [q EXCEPT !.stage = "op", !.status = 403, !.msg = "Invalid token",
                   !.next = q.next + 1]
  ELSE [q EXCEPT !.stage = "op", !.next = q.next + 1,
                 !.user = JwtDecoded(ExtractToken(q.hdr))]

\* the middleware, on a request in its arrival state: either it answers 403
\* or it attaches req.user and calls next(), which leaves the handler at
\* its first await
\* (mutant) the middleware looks the user of the token up and refuses the
\* token of a user that is stored no more
authenticateTokenChecksUser(q, t) ==
  IF ExtractToken(q.hdr) = <<>>
    THEN [q EXCEPT !.stage = "done", !.status = 403, !.msg = "Token is required"]
  ELSE IF JwtVerifyErr(ExtractToken(q.hdr), JWT_SECRET, t)
    THEN [q EXCEPT !.stage = "done", !.status = 403, !.msg = "Invalid token"]
  ELSE IF \A u \in users : u.id # JwtDecoded(ExtractToken(q.hdr)).userId
    THEN [q EXCEPT !.stage = "done", !.status = 403, !.msg = "Invalid token"]
  ELSE [q EXCEPT !.stage = "op", !.next = q.next + 1,
                 !.user = JwtDecoded(ExtractToken(q.hdr))]

authenticateToken(q, t) ==
  IF ExtractToken(q.hdr) = <<>>
    THEN [q EXCEPT !.stage = "done", !.status = 403, !.msg = "Token is required"]
  ELSE IF JwtVerifyErr(ExtractToken(q.hdr), JWT_SECRET, t)
    THEN [q EXCEPT !.stage = "done", !.status = 403, !.msg = "Invalid token"]
  ELSE [q EXCEPT !.stage = "op", !.next = q.next + 1,
                 !.user = JwtDecoded(ExtractToken(q.hdr))]

(* ------------------------------ the store ----------------------------- *)
\* Users.findOne({ email }): a stored user with that email, or null
FindOneByEmail(email) ==
  IF \E u \in users : u.email = email
    THEN CHOOSE u \in users : u.email = email
    ELSE NoUser

\* (mutant) a schema without the unique index: nothing is refused
DuplicateKeyNoIndex(doc) == FALSE

\* the unique index on email (unique: true) refuses a second document with
\* an email that is stored already: save() rejects with a duplicate key error
DuplicateKey(doc) == \E u \in users : u.email = doc.email

(* ---------------------------- POST /signup ---------------------------- *)
\* the request arrives; the handler runs to `await Users.findOne`
PostSignup(r, email, password) ==
  /\ req[r].stage = "idle"
  /\ nextUid + Cardinality({s \in Slots : req[s].route = "signup"
                              /\ req[s].stage \in {"findOne", "hash"}}) <= MaxUsers
  /\ req' = [req EXCEPT ![r] = [Idle EXCEPT !.route = "signup", !.stage = "findOne",
                                            !.email = email, !.password = password]]
  /\ UNCHANGED <<users, nextUid, now, issued, restaurants, nextRid, loggedOut, trace>>

\* findOne answers: 400 for a stored email, else on to `await bcrypt.hash`
SignupFindOne(r) ==
  /\ req[r].route = "signup" /\ req[r].stage = "findOne"
  /\ req' = [req EXCEPT ![r] =
       IF FindOneByEmail(req[r].email) # NoUser
         THEN Respond(req[r], 400, "Email already in use")
         ELSE [req[r] EXCEPT !.stage = "hash"]]
  /\ UNCHANGED <<users, nextUid, now, issued, restaurants, nextRid, loggedOut, trace>>

\* findOne rejects (the store fails): the await is outside the try
SignupFindOneFails(r) ==
  /\ req[r].route = "signup" /\ req[r].stage = "findOne"
  /\ req' = [req EXCEPT ![r] = Unhandled(req[r])]
  /\ UNCHANGED <<users, nextUid, now, issued, restaurants, nextRid, loggedOut, trace>>

\* bcrypt.hash answers; new Users({...}) gets its _id; on to `await save`
SignupHash(r, salt) ==
  /\ req[r].route = "signup" /\ req[r].stage = "hash"
  /\ req' = [req EXCEPT ![r] =
       [req[r] EXCEPT !.stage = "save",
                      !.tmp = [id |-> nextUid, email |-> req[r].email,
                               password |-> BcryptHash(req[r].password, salt)]]]
  /\ nextUid' = nextUid + 1
  /\ UNCHANGED <<users, now, issued, restaurants, nextRid, loggedOut, trace>>

\* bcrypt.hash rejects: the await is outside the try
SignupHashFails(r) ==
  /\ req[r].route = "signup" /\ req[r].stage = "hash"
  /\ req' = [req EXCEPT ![r] = Unhandled(req[r])]
  /\ UNCHANGED <<users, nextUid, now, issued, restaurants, nextRid, loggedOut, trace>>

\* newUser.save() inside the try: 201, or 500 when the unique index refuses
SignupSave(r) ==
  /\ req[r].route = "signup" /\ req[r].stage = "save"
  /\ IF DuplicateKey(req[r].tmp)
       THEN /\ req' = [req EXCEPT ![r] = Respond(req[r], 500, "Error registering user")]
            /\ UNCHANGED users
       ELSE /\ req' = [req EXCEPT ![r] = Respond(req[r], 201, "User successfully registered")]
            /\ users' = users \cup {req[r].tmp}
  /\ UNCHANGED <<nextUid, now, issued, restaurants, nextRid, loggedOut, trace>>

\* save() rejects because the store fails: caught, 500
SignupSaveFails(r) ==
  /\ req[r].route = "signup" /\ req[r].stage = "save"
  /\ req' = [req EXCEPT ![r] = Respond(req[r], 500, "Error registering user")]
  /\ UNCHANGED <<users, nextUid, now, issued, restaurants, nextRid, loggedOut, trace>>

(* ----------------------------- POST /login ---------------------------- *)
PostLogin(r, email, password) ==
  /\ req[r].stage = "idle"
  /\ req' = [req EXCEPT ![r] = [Idle EXCEPT !.route = "login", !.stage = "findOne",
                                            !.email = email, !.password = password]]
  /\ UNCHANGED <<users, nextUid, now, issued, restaurants, nextRid, loggedOut, trace>>

\* (mutant) an unknown email gets its own answer
LoginFindOneRevealing(r) ==
  /\ req[r].route = "login" /\ req[r].stage = "findOne"
  /\ req' = [req EXCEPT ![r] =
       IF FindOneByEmail(req[r].email) = NoUser
         THEN Respond(req[r], 401, "Unknown email")
         ELSE [req[r] EXCEPT !.stage = "compare", !.tmp = FindOneByEmail(req[r].email)]]
  /\ UNCHANGED <<users, nextUid, now, issued, restaurants, nextRid, loggedOut, trace>>

\* findOne answers: 401 for an unknown email, else on to `await bcrypt.compare`
LoginFindOne(r) ==
  /\ req[r].route = "login" /\ req[r].stage = "findOne"
  /\ req' = [req EXCEPT ![r] =
       IF FindOneByEmail(req[r].email) = NoUser
         THEN Respond(req[r], 401, "Invalid email or password")
         ELSE [req[r] EXCEPT !.stage = "compare", !.tmp = FindOneByEmail(req[r].email)]]
  /\ UNCHANGED <<users, nextUid, now, issued, restaurants, nextRid, loggedOut, trace>>

\* findOne rejects: nothing in the handler catches it
LoginFindOneFails(r) ==
  /\ req[r].route = "login" /\ req[r].stage = "findOne"
  /\ req' = [req EXCEPT ![r] = Unhandled(req[r])]
  /\ UNCHANGED <<users, nextUid, now, issued, restaurants, nextRid, loggedOut, trace>>

\* bcrypt.compare answers: 401 on a mismatch, else jwt.sign and 200 {token}
\* (mutant) a successful login stores the password again under a new salt
LoginCompareRehash(r) ==
  /\ req[r].route = "login" /\ req[r].stage = "compare"
  /\ IF ~BcryptCompare(req[r].password, req[r].tmp.password)
       THEN /\ req' = [req EXCEPT ![r] = Respond(req[r], 401, "Invalid email or password")]
            /\ UNCHANGED <<issued, users>>
       ELSE LET token == JwtSign(req[r].tmp.id, req[r].tmp.email, JWT_SECRET, now)
            IN /\ token \in issued \/ Cardinality(issued) < MaxTokens
               /\ req' = [req EXCEPT ![r] = [req[r] EXCEPT !.stage = "done", !.status = 200,
                                                           !.token = token]]
               /\ issued' = issued \cup {token}
               /\ users' = {IF u.id = req[r].tmp.id
                              THEN [u EXCEPT !.password = BcryptHash(req[r].password, NSalts + 1)]
                              ELSE u : u \in users}
  /\ UNCHANGED <<nextUid, now, restaurants, nextRid, loggedOut, trace>>

LoginCompare(r) ==
  /\ req[r].route = "login" /\ req[r].stage = "compare"
  /\ IF ~BcryptCompare(req[r].password, req[r].tmp.password)
       THEN /\ req' = [req EXCEPT ![r] = Respond(req[r], 401, "Invalid email or password")]
            /\ UNCHANGED issued
       ELSE LET token == JwtSign(req[r].tmp.id, req[r].tmp.email, JWT_SECRET, now)
            IN /\ token \in issued \/ Cardinality(issued) < MaxTokens
               /\ req' = [req EXCEPT ![r] = [req[r] EXCEPT !.stage = "done", !.status = 200,
                                                           !.token = token]]
               /\ issued' = issued \cup {token}
  /\ UNCHANGED <<users, nextUid, now, restaurants, nextRid, loggedOut, trace>>

\* bcrypt.compare rejects: nothing in the handler catches it
LoginCompareFails(r) ==
  /\ req[r].route = "login" /\ req[r].stage = "compare"
  /\ req' = [req EXCEPT ![r] = Unhandled(req[r])]
  /\ UNCHANGED <<users, nextUid, now, issued, restaurants, nextRid, loggedOut, trace>>

(* ----------------------------- POST /logout --------------------------- *)
\* no middleware, no store call: the handler answers at once
PostLogout(r, hdr) ==
  /\ req[r].stage = "idle"
  /\ req' = [req EXCEPT ![r] =
       Respond([Idle EXCEPT !.route = "logout", !.hdr = hdr], 200,
               "User logged out successfully")]
  /\ loggedOut' = loggedOut \cup {t \in issued : hdr = Bearer(t)}
  /\ UNCHANGED <<users, nextUid, now, issued, restaurants, nextRid, trace>>

(* --------------------------- DELETE /users/me ------------------------- *)
\* the request arrives, the middleware runs, the handler runs to
\* `await Users.findByIdAndDelete`
DeleteUsersMe(r, hdr) ==
  /\ req[r].stage = "idle"
  /\ req' = [req EXCEPT ![r] =
       authenticateToken([Idle EXCEPT !.route = "deleteMe", !.hdr = hdr], now)]
  /\ UNCHANGED <<users, nextUid, now, issued, restaurants, nextRid, loggedOut, trace>>

\* (mutant) answers 200 and leaves the user where it is
UsersFindByIdAndDeleteKeeps(r) ==
  /\ req[r].route = "deleteMe" /\ req[r].stage = "op"
  /\ req' = [req EXCEPT ![r] =
       IF \E u \in users : u.id = req[r].user.userId
         THEN Respond(req[r], 200, "User deleted successfully")
         ELSE Respond(req[r], 404, "User not found")]
  /\ UNCHANGED <<users, nextUid, now, issued, restaurants, nextRid, loggedOut, trace>>

\* findByIdAndDelete(req.user.userId) answers: 404 when no such user
\* (mutant) the identity is kept in one variable for all requests: another
\* request that is past the middleware has overwritten it
UsersFindByIdAndDeleteShared(r) ==
  /\ req[r].route = "deleteMe" /\ req[r].stage = "op"
  /\ LET others == {s \in Slots \ {r} : req[s].stage = "op"}
         userId == IF others = {} THEN req[r].user.userId
                   ELSE req[CHOOSE s \in others : TRUE].user.userId
     IN IF \E u \in users : u.id = userId
          THEN /\ users' = {u \in users : u.id # userId}
               /\ req' = [req EXCEPT ![r] = Respond(req[r], 200, "User deleted successfully")]
          ELSE /\ UNCHANGED users
               /\ req' = [req EXCEPT ![r] = Respond(req[r], 404, "User not found")]
  /\ UNCHANGED <<nextUid, now, issued, restaurants, nextRid, loggedOut, trace>>

UsersFindByIdAndDelete(r) ==
  /\ req[r].route = "deleteMe" /\ req[r].stage = "op"
  /\ IF \E u \in users : u.id = req[r].user.userId
       THEN /\ users' = {u \in users : u.id # req[r].user.userId}
            /\ req' = [req EXCEPT ![r] = Respond(req[r], 200, "User deleted successfully")]
       ELSE /\ UNCHANGED users
            /\ req' = [req EXCEPT ![r] = Respond(req[r], 404, "User not found")]
  /\ UNCHANGED <<nextUid, now, issued, restaurants, nextRid, loggedOut, trace>>

\* findByIdAndDelete rejects: caught, 500
UsersFindByIdAndDeleteFails(r) ==
  /\ req[r].route = "deleteMe" /\ req[r].stage = "op"
  /\ req' = [req EXCEPT ![r] = Respond(req[r], 500, "Error deleting user")]
  /\ UNCHANGED <<users, nextUid, now, issued, restaurants, nextRid, loggedOut, trace>>


(* ---------------------- GET /restaurants/search ----------------------- *)
Lower(c) == IF c = "A" THEN "a" ELSE IF c = "B" THEN "b" ELSE c

\* one pattern character against one character, with $options: 'i';
\* the parameter is used as a regular expression, '.' matches any character
CharMatch(pc, c) == pc = "." \/ Lower(pc) = Lower(c)

\* { $regex: pattern, $options: 'i' } on a stored field
RegexMatch(pattern, field) ==
  /\ field # Absent
  /\ \E k \in 0..(Len(field) - Len(pattern)) :
       \A i \in 1..Len(pattern) : CharMatch(pattern[i], field[k + i])

\* `if (name)`: the parameter is there and is not the empty string
Supplied(param) == param # Absent /\ param # <<>>

\* the query object built from req.query, applied to one document
QueryMatches(q, d) ==
  /\ Supplied(q.name) => RegexMatch(q.name, d.name)
  /\ Supplied(q.cuisine) => RegexMatch(q.cuisine, d.cuisine)

GetRestaurantsSearch(r, hdr, query) ==
  /\ req[r].stage = "idle"
  /\ req' = [req EXCEPT ![r] =
       authenticateToken([Idle EXCEPT !.route = "search", !.hdr = hdr, !.body = query], now)]
  /\ UNCHANGED <<users, nextUid, now, issued, restaurants, nextRid, loggedOut, trace>>

\* Restaurant.find(query) answers: 404 for an empty result
RestaurantFindQuery(r) ==
  /\ req[r].route = "search" /\ req[r].stage = "op"
  /\ LET found == {d \in restaurants : QueryMatches(req[r].body, d)}
     IN req' = [req EXCEPT ![r] =
          IF found = {}
            THEN Respond(req[r], 404, "No restaurants found matching the search criteria")
            ELSE [req[r] EXCEPT !.stage = "done", !.status = 200, !.docs = found]]
  /\ UNCHANGED <<users, nextUid, now, issued, restaurants, nextRid, loggedOut, trace>>

RestaurantFindQueryFails(r) ==
  /\ req[r].route = "search" /\ req[r].stage = "op"
  /\ req' = [req EXCEPT ![r] = Respond(req[r], 500, "Error searching for restaurants")]
  /\ UNCHANGED <<users, nextUid, now, issued, restaurants, nextRid, loggedOut, trace>>

(* ------------------------- POST /restaurants -------------------------- *)
\* after the middleware, new Restaurant(req.body) gets its _id and the
\* handler runs to `await save`
PostRestaurants(r, hdr, body) ==
  /\ req[r].stage = "idle"
  /\ nextRid <= MaxRestaurants
  /\ LET q == authenticateToken([Idle EXCEPT !.route = "create", !.hdr = hdr,
                                             !.body = body], now)
     IN IF q.stage = "op"
          THEN /\ req' = [req EXCEPT ![r] =
                    [q EXCEPT !.doc = [id |-> nextRid, name |-> body.name,
                                       cuisine |-> body.cuisine]]]
               /\ nextRid' = nextRid + 1
          ELSE /\ req' = [req EXCEPT ![r] = q]
               /\ UNCHANGED nextRid
  /\ UNCHANGED <<users, nextUid, now, issued, restaurants, loggedOut, trace>>

RestaurantSave(r) ==
  /\ req[r].route = "create" /\ req[r].stage = "op"
  /\ restaurants' = restaurants \cup {req[r].doc}
  /\ req' = [req EXCEPT ![r] = [req[r] EXCEPT !.stage = "done", !.status = 201,
                                              !.docs = {req[r].doc}]]
  /\ UNCHANGED <<users, nextUid, now, issued, nextRid, loggedOut, trace>>

\* save() rejects: the catch answers 400
RestaurantSaveFails(r) ==
  /\ req[r].route = "create" /\ req[r].stage = "op"
  /\ req' = [req EXCEPT ![r] = Respond(req[r], 400, "err.message")]
  /\ UNCHANGED <<users, nextUid, now, issued, restaurants, nextRid, loggedOut, trace>>

(* -------------------------- GET /restaurants -------------------------- *)
GetRestaurants(r, hdr) ==
  /\ req[r].stage = "idle"
  /\ req' = [req EXCEPT ![r] =
       authenticateToken([Idle EXCEPT !.route = "list", !.hdr = hdr], now)]
  /\ UNCHANGED <<users, nextUid, now, issued, restaurants, nextRid, loggedOut, trace>>

RestaurantFind(r) ==
  /\ req[r].route = "list" /\ req[r].stage = "op"
  /\ req' = [req EXCEPT ![r] = [req[r] EXCEPT !.stage = "done", !.status = 200,
                                              !.docs = restaurants]]
  /\ UNCHANGED <<users, nextUid, now, issued, restaurants, nextRid, loggedOut, trace>>

RestaurantFindFails(r) ==
  /\ req[r].route = "list" /\ req[r].stage = "op"
  /\ req' = [req EXCEPT ![r] = Respond(req[r], 500, "err.message")]
  /\ UNCHANGED <<users, nextUid, now, issued, restaurants, nextRid, loggedOut, trace>>

(* ------------------------ GET /restaurants/:id ------------------------ *)
GetRestaurantsId(r, hdr, id) ==
  /\ req[r].stage = "idle"
  /\ req' = [req EXCEPT ![r] =
       authenticateToken([Idle EXCEPT !.route = "get", !.hdr = hdr, !.id = id], now)]
  /\ UNCHANGED <<users, nextUid, now, issued, restaurants, nextRid, loggedOut, trace>>

\* findById answers; an :id that is no ObjectId makes it reject (CastError)
RestaurantFindById(r) ==
  /\ req[r].route = "get" /\ req[r].stage = "op"
  /\ req' = [req EXCEPT ![r] =
       IF req[r].id = BadId THEN Respond(req[r], 500, "err.message")
       ELSE IF \E d \in restaurants : d.id = req[r].id
         THEN [req[r] EXCEPT !.stage = "done", !.status = 200,
                             !.docs = {d \in restaurants : d.id = req[r].id}]
         ELSE Respond(req[r], 404, "Restaurant not found")]
  /\ UNCHANGED <<users, nextUid, now, issued, restaurants, nextRid, loggedOut, trace>>

RestaurantFindByIdFails(r) ==
  /\ req[r].route = "get" /\ req[r].stage = "op"
  /\ req' = [req EXCEPT ![r] = Respond(req[r], 500, "err.message")]
  /\ UNCHANGED <<users, nextUid, now, issued, restaurants, nextRid, loggedOut, trace>>

(* ------------------------ PUT /restaurants/:id ------------------------ *)
PutRestaurantsId(r, hdr, id, body) ==
  /\ req[r].stage = "idle"
  /\ req' = [req EXCEPT ![r] =
       authenticateToken([Idle EXCEPT !.route = "put", !.hdr = hdr, !.id = id,
                                      !.body = body], now)]
  /\ UNCHANGED <<users, nextUid, now, issued, restaurants, nextRid, loggedOut, trace>>

\* findByIdAndUpdate(id, body, { new: true }): the fields of the body are
\* set on the stored document, the others stay
Updated(d, body) ==
  [d EXCEPT !.name = IF body.name = Absent THEN d.name ELSE body.name,
            !.cuisine = IF body.cuisine = Absent THEN d.cuisine ELSE body.cuisine]

RestaurantFindByIdAndUpdate(r) ==
  /\ req[r].route = "put" /\ req[r].stage = "op"
  /\ IF req[r].id = BadId
       THEN /\ req' = [req EXCEPT ![r] = Respond(req[r], 500, "err.message")]
            /\ UNCHANGED restaurants
     ELSE IF \E d \in restaurants : d.id = req[r].id
       THEN /\ restaurants' = {IF d.id = req[r].id THEN Updated(d, req[r].body) ELSE d :
                                 d \in restaurants}
            /\ req' = [req EXCEPT ![r] =
                 [req[r] EXCEPT !.stage = "done", !.status = 200,
                    !.docs = {Updated(d, req[r].body) :
                                d \in {x \in restaurants : x.id = req[r].id}}]]
       ELSE /\ req' = [req EXCEPT ![r] = Respond(req[r], 404, "Restaurant not found")]
            /\ UNCHANGED restaurants
  /\ UNCHANGED <<users, nextUid, now, issued, nextRid, loggedOut, trace>>

RestaurantFindByIdAndUpdateFails(r) ==
  /\ req[r].route = "put" /\ req[r].stage = "op"
  /\ req' = [req EXCEPT ![r] = Respond(req[r], 500, "err.message")]
  /\ UNCHANGED <<users, nextUid, now, issued, restaurants, nextRid, loggedOut, trace>>

(* ----------------------- DELETE /restaurants/:id ---------------------- *)
\* (mutant) the route registered without the middleware
DeleteRestaurantsIdUnguarded(r, hdr, id) ==
  /\ req[r].stage = "idle"
  /\ req' = [req EXCEPT ![r] =
       [Idle EXCEPT !.route = "delete", !.hdr = hdr, !.id = id, !.stage = "op",
                    !.next = 1]]
  /\ UNCHANGED <<users, nextUid, now, issued, restaurants, nextRid, loggedOut, trace>>

DeleteRestaurantsId(r, hdr, id) ==
  /\ req[r].stage = "idle"
  /\ req' = [req EXCEPT ![r] =
       authenticateToken([Idle EXCEPT !.route = "delete", !.hdr = hdr, !.id = id], now)]
  /\ UNCHANGED <<users, nextUid, now, issued, restaurants, nextRid, loggedOut, trace>>

\* (mutant) the handler answers 200 without looking at what was deleted
RestaurantFindByIdAndDeleteBlind(r) ==
  /\ req[r].route = "delete" /\ req[r].stage = "op"
  /\ IF req[r].id = BadId
       THEN /\ req' = [req EXCEPT ![r] = Respond(req[r], 500, "err.message")]
            /\ UNCHANGED restaurants
       ELSE /\ restaurants' = {d \in restaurants : d.id # req[r].id}
            /\ req' = [req EXCEPT ![r] = Respond(req[r], 200, "Restaurant deleted successfully")]
  /\ UNCHANGED <<users, nextUid, now, issued, nextRid, loggedOut, trace>>

RestaurantFindByIdAndDelete(r) ==
  /\ req[r].route = "delete" /\ req[r].stage = "op"
  /\ IF req[r].id = BadId
       THEN /\ req' = [req EXCEPT ![r] = Respond(req[r], 500, "err.message")]
            /\ UNCHANGED restaurants
     ELSE IF \E d \in restaurants : d.id = req[r].id
       THEN /\ restaurants' = {d \in restaurants : d.id # req[r].id}
            /\ req' = [req EXCEPT ![r] = Respond(req[r], 200, "Restaurant deleted successfully")]
       ELSE /\ req' = [req EXCEPT ![r] = Respond(req[r], 404, "Restaurant not found")]
            /\ UNCHANGED restaurants
  /\ UNCHANGED <<users, nextUid, now, issued, nextRid, loggedOut, trace>>

RestaurantFindByIdAndDeleteFails(r) ==
  /\ req[r].route = "delete" /\ req[r].stage = "op"
  /\ req' = [req EXCEPT ![r] = Respond(req[r], 500, "err.message")]
  /\ UNCHANGED <<users, nextUid, now, issued, restaurants, nextRid, loggedOut, trace>>

(* --------------------------- the environment -------------------------- *)

Headers == {NoHeader} \cup {Bearer(t) : t \in issued}

OddHeaders ==
  {Header(<<>>), Header(<<Word("Bearer")>>), Header(<<Word("Bearer"), Space>>),
   Header(<<Word("Bearer"), Space, Word("garbage")>>)}
  \cup {Header(<<Word("Basic"), Space, TokAtom(t)>>) : t \in issued}
  \cup {Header(<<TokAtom(t)>>) : t \in issued}
  \cup {Header(<<Word("Bearer"), Space, Space, TokAtom(t)>>) : t \in issued}
  \cup {Bearer(Forged(t)) : t \in issued}

Strings == {<<"A", "b">>, <<"b">>}
Bodies == [name : Strings \cup {Absent}, cuisine : {<<"a">>, Absent}]
Queries == [name : {<<"a">>, <<".">>, <<>>, Absent}, cuisine : {<<"A">>, Absent}]
Ids == {BadId} \cup (1..MaxRestaurants)
Salts == 1..NSalts

\* time passes
Tick ==
  /\ \E t \in Instants : t > now /\ now' = t
  /\ UNCHANGED <<users, nextUid, issued, restaurants, nextRid, req, loggedOut, trace>>

\* the exchange is over (the response was sent, or the client gave up on a
\* request that never got one): the slot takes the next request
Recycle(r) ==
  /\ req[r].stage \in {"done", "unhandledRejection"}
  /\ req' = [req EXCEPT ![r] = Idle]
  /\ UNCHANGED <<users, nextUid, now, issued, restaurants, nextRid, loggedOut, trace>>

\* a client throws a token away
Forget(tok) ==
  /\ tok \in issued
  /\ issued' = issued \ {tok}
  /\ loggedOut' = loggedOut \ {tok}
  /\ UNCHANGED <<users, nextUid, now, restaurants, nextRid, req, trace>>

Init ==
  /\ users = {}
  /\ nextUid = 1
  /\ now = 0
  /\ issued = {}
  /\ restaurants = {}
  /\ nextRid = 1
  /\ req = [r \in Slots |-> Idle]
  /\ loggedOut = {}
  /\ trace = <<>>

\* the routes that read or change the Users collection
UserArrive(r, H, E, P) ==
  \/ \E e \in E, p \in P : PostSignup(r, e, p)
  \/ \E e \in E, p \in P : PostLogin(r, e, p)
  \/ \E h \in H : DeleteUsersMe(r, h)

UserAnswer(r) ==
  \/ SignupFindOne(r)
  \/ \E salt \in Salts : SignupHash(r, salt)
  \/ SignupSave(r)
  \/ LoginFindOne(r)
  \/ LoginCompare(r)
  \/ UsersFindByIdAndDelete(r)

UserFails(r) ==
  \/ SignupFindOneFails(r)
  \/ SignupHashFails(r)
  \/ SignupSaveFails(r)
  \/ LoginFindOneFails(r)
  \/ LoginCompareFails(r)
  \/ UsersFindByIdAndDeleteFails(r)

\* logout and the restaurant routes
RestaurantArrive(r, H, B, Q) ==
  \/ \E h \in H : PostLogout(r, h)
  \/ \E h \in H : GetRestaurants(r, h)
  \/ \E h \in H, q \in Q : GetRestaurantsSearch(r, h, q)
  \/ \E h \in H, b \in B : PostRestaurants(r, h, b)
  \/ \E h \in H, id \in Ids : GetRestaurantsId(r, h, id)
  \/ \E h \in H, id \in Ids, b \in B : PutRestaurantsId(r, h, id, b)
  \/ \E h \in H, id \in Ids : DeleteRestaurantsId(r, h, id)

RestaurantAnswer(r) ==
  \/ RestaurantFind(r)
  \/ RestaurantFindQuery(r)
  \/ RestaurantSave(r)
  \/ RestaurantFindById(r)
  \/ RestaurantFindByIdAndUpdate(r)
  \/ RestaurantFindByIdAndDelete(r)

RestaurantFails(r) ==
  \/ RestaurantFindFails(r)
  \/ RestaurantFindQueryFails(r)
  \/ RestaurantSaveFails(r)
  \/ RestaurantFindByIdFails(r)
  \/ RestaurantFindByIdAndUpdateFails(r)
  \/ RestaurantFindByIdAndDeleteFails(r)

\* Spec: signup, login and self-delete, NSlots requests at a time, with
\* store and bcrypt failures
Next ==
  \/ \E r \in Slots : UserArrive(r, Headers, Emails, Passwords)
  \/ \E r \in Slots : UserAnswer(r)
  \/ \E r \in Slots : UserFails(r)
  \/ \E r \in Slots : Recycle(r)
  \/ \E t \in issued : Forget(t)
  \/ Tick

Spec == Init /\ [][Next]_vars

\* SpecReliable: Spec with a store and a bcrypt that never fail
ReliableNext ==
  \/ \E r \in Slots : UserArrive(r, Headers, Emails, Passwords)
  \/ \E r \in Slots : UserAnswer(r)
  \/ \E r \in Slots : Recycle(r)
  \/ \E t \in issued : Forget(t)
  \/ Tick

SpecReliable == Init /\ [][ReliableNext]_vars

\* SpecGuard: every route, every shape of Authorization header, one request
\* at a time, one email and one password, one body and two queries
GuardBodies == {[name |-> <<"A", "b">>, cuisine |-> Absent]}
GuardQueries == {[name |-> <<"a">>, cuisine |-> Absent], [name |-> Absent, cuisine |-> <<"A">>]}

GuardNext ==
  \/ UserArrive(1, Headers \cup OddHeaders, {"e1"}, {"p1"})
  \/ RestaurantArrive(1, Headers \cup OddHeaders, GuardBodies, GuardQueries)
  \/ UserAnswer(1)
  \/ RestaurantAnswer(1)
  \/ UserFails(1)
  \/ RestaurantFails(1)
  \/ Recycle(1)
  \/ \E t \in issued : Forget(t)
  \/ Tick

SpecGuard == Init /\ [][GuardNext]_vars

\* SpecScenario: one client sends the six requests of the end-to-end
\* scenario one after the other, each after the response to the one before;
\* the store does not fail and may hold another user and a restaurant
ScenarioInit ==
  /\ users \in {{}} \cup {{[id |-> 1, email |-> "e2", password |-> BcryptHash(p, salt)]} :
                           p \in Passwords, salt \in Salts}
  /\ nextUid = 1 + Cardinality(users)
  /\ now = 0
  /\ issued = {}
  /\ restaurants \in {{}, {[id |-> 1, name |-> <<"A", "b">>, cuisine |-> Absent]}}
  /\ nextRid = 1 + Cardinality(restaurants)
  /\ req = [r \in Slots |-> Idle]
  /\ loggedOut = {}
  /\ trace = <<>>

ScenarioSend ==
  \/ Len(trace) = 0 /\ PostSignup(1, "e1", "p1")
  \/ Len(trace) = 1 /\ PostLogin(1, "e1", "p1")
  \/ Len(trace) = 2 /\ \E t \in issued : GetRestaurants(1, Bearer(t))
  \/ Len(trace) = 3 /\ GetRestaurants(1, NoHeader)
  \/ Len(trace) = 4 /\ \E t \in issued : DeleteUsersMe(1, Bearer(t))
  \/ Len(trace) = 5 /\ PostLogin(1, "e1", "p1")

\* the client takes the response; the slot is free for the next request
ScenarioReceive ==
  /\ req[1].stage = "done"
  /\ trace' = Append(trace, req[1].status)
  /\ req' = [req EXCEPT ![1] = Idle]
  /\ UNCHANGED <<users, nextUid, now, issued, restaurants, nextRid, loggedOut>>

ScenarioNext ==
  \/ ScenarioSend
  \/ UserAnswer(1)
  \/ RestaurantFind(1)
  \/ ScenarioReceive
  \/ Tick

SpecScenario == ScenarioInit /\ [][ScenarioNext]_vars

\* SpecRestaurants: one signed-up, logged-in client whose token stays
\* fresh sends restaurant requests, NSlots at a time, to a store that does
\* not fail
TheUser == [id |-> 1, email |-> "e1", password |-> BcryptHash("p1", 1)]
TheToken == JwtSign(TheUser.id, TheUser.email, JWT_SECRET, 0)

RestaurantsInit ==
  /\ users = {TheUser}
  /\ nextUid = 2
  /\ now = 0
  /\ issued = {TheToken}
  /\ restaurants = {}
  /\ nextRid = 1
  /\ req = [r \in Slots |-> Idle]
  /\ loggedOut = {}
  /\ trace = <<>>

RestaurantsBodies ==
  {[name |-> <<"A", "b">>, cuisine |-> <<"a">>], [name |-> <<"b">>, cuisine |-> Absent]}
RestaurantsQueries == {[name |-> <<"b">>, cuisine |-> Absent]}

RestaurantsNext ==
  \/ \E r \in Slots :
       RestaurantArrive(r, {Bearer(TheToken)}, RestaurantsBodies, RestaurantsQueries)
  \/ \E r \in Slots : RestaurantAnswer(r)
  \/ \E r \in Slots : Recycle(r)

SpecRestaurants == RestaurantsInit /\ [][RestaurantsNext]_vars

\* SpecSearch: the logged-in client searches a collection that holds any
\* documents the create route can have stored, with every query of Queries
SearchDocs == [id : 1..MaxRestaurants, name : Strings \cup {Absent}, cuisine : {<<"a">>, Absent}]

SearchInit ==
  /\ users = {TheUser}
  /\ nextUid = 2
  /\ now = 0
  /\ issued = {TheToken}
  /\ restaurants \in {c \in SUBSET SearchDocs : \A d \in c, e \in c : d.id = e.id => d = e}
  /\ nextRid = MaxRestaurants + 1
  /\ req = [r \in Slots |-> Idle]
  /\ loggedOut = {}
  /\ trace = <<>>

SearchNext ==
  \/ \E r \in Slots, q \in Queries : GetRestaurantsSearch(r, Bearer(TheToken), q)
  \/ \E r \in Slots : RestaurantFindQuery(r)
  \/ \E r \in Slots : Recycle(r)

SpecSearch == SearchInit /\ [][SearchNext]_vars

\* SpecSelfDelete: two stored users, each holding a fresh token, send
\* DELETE /users/me, NSlots at a time; the store may fail and may hold a
\* restaurant
TheOther == [id |-> 2, email |-> "e2", password |-> BcryptHash("p2", 1)]
OtherToken == JwtSign(TheOther.id, TheOther.email, JWT_SECRET, 0)

SelfDeleteInit ==
  /\ users = {TheUser, TheOther}
  /\ nextUid = 3
  /\ now = 0
  /\ issued = {TheToken, OtherToken}
  /\ restaurants \in {{}, {[id |-> 1, name |-> <<"A", "b">>, cuisine |-> Absent]}}
  /\ nextRid = 2
  /\ req = [r \in Slots |-> Idle]
  /\ loggedOut = {}
  /\ trace = <<>>

SelfDeleteNext ==
  \/ \E r \in Slots, h \in Headers : DeleteUsersMe(r, h)
  \/ \E r \in Slots : UsersFindByIdAndDelete(r)
  \/ \E r \in Slots : UsersFindByIdAndDeleteFails(r)
  \/ \E r \in Slots : Recycle(r)

SpecSelfDelete == SelfDeleteInit /\ [][SelfDeleteNext]_vars

(* ======================= the claims, C1 .. C10 ======================== *)

\* C1: in every reachable state, whatever the interleaving of POST /signup
\* and DELETE /users/me (two signups of one email overlapping included), no
\* two stored users have the same email.
C1_NoTwoUsersShareEmail ==
  \A u \in users, v \in users : u.email = v.email => u = v

\* C1 witness: two signups of one email overlap: both passed the findOne
\* check, one has stored its user, the other is about to save
C1_Witness ==
  \E r \in Slots, s \in Slots :
    /\ r # s
    /\ req[r].route = "signup" /\ req[r].status = 201 /\ req[r].tmp \in users
    /\ req[s].route = "signup" /\ req[s].stage = "save"
    /\ req[s].email = req[r].email

\* C2 (the claim as stated): of two answered signups with the same email,
\* the one that did not create the stored user is answered 400 'Email
\* already in use', and exactly one user with that email is stored.
C2_SecondSignupGets400 ==
  \A r \in Slots, s \in Slots :
    ( /\ r # s
      /\ req[r].route = "signup" /\ req[r].status = 201 /\ req[r].tmp \in users
      /\ req[s].route = "signup" /\ req[s].stage = "done" /\ req[s].status # 201
      /\ req[s].email = req[r].email )
    => /\ req[s].status = 400
       /\ req[s].msg = "Email already in use"
       /\ Cardinality({u \in users : u.email = req[r].email}) = 1

\* C7 (the claim as stated): no failure of a store or bcrypt call escapes a
\* handler: no request is left with an unhandled rejection and no response.
C7_NoErrorEscapes ==
  \A r \in Slots : req[r].stage # "unhandledRejection"

ProtectedRoutes == {"search", "create", "list", "get", "put", "delete", "deleteMe"}
OpenRoutes == {"signup", "login", "logout"}

\* slot r takes a request in this step
Arrives(r) == req[r].stage = "idle" /\ req'[r].stage # "idle"

\* the middleware has answered q with 403 and this text, and nothing else
\* has happened to q
Rejected(q, text) ==
  /\ q.stage = "done" /\ q.status = 403 /\ q.msg = text
  /\ q.next = 0 /\ q.user = NoTok /\ q.docs = {} /\ q.token = NoTok

\* the text is a token that login has issued and that has not expired at t
IssuedAndFresh(seg, t) ==
  \E tok \in issued : seg = <<TokAtom(tok)>> /\ t < tok.exp

\* C3: on a protected route the middleware ends in exactly one of three
\* ways: no token extracted -> 403 'Token is required'; a token that does
\* not verify -> 403 'Invalid token'; a token that verifies -> its claims on
\* req.user and the handler entered, once.  A rejected request is never
\* touched again.
C3_ThreeOutcomes ==
  /\ [][\A r \in Slots :
          (Arrives(r) /\ req'[r].route \in ProtectedRoutes) =>
            LET q == req'[r]
                seg == ExtractToken(q.hdr)
            IN IF seg = <<>> THEN Rejected(q, "Token is required")
               ELSE IF ~IssuedAndFresh(seg, now) THEN Rejected(q, "Invalid token")
               ELSE /\ q.stage = "op" /\ q.status = 0 /\ q.next = 1
                    /\ q.user = seg[1].t]_vars
  /\ [][\A r \in Slots :
          (req[r].route \in ProtectedRoutes /\ req[r].status = 403) =>
            (req'[r] = req[r] \/ req'[r] = Idle)]_vars
  /\ [](\A r \in Slots : req[r].next <= 1)

\* C3 witness: the three outcomes have been seen: here a forged token was
\* answered 'Invalid token'
C3_Witness ==
  \E tok \in issued :
    /\ req[1].route = "put" /\ req[1].hdr = Bearer(Forged(tok))
    /\ Rejected(req[1], "Invalid token")

\* Authorization: Bearer <token>
BearerForm(hdr) ==
  /\ hdr.present /\ Len(hdr.text) = 3
  /\ hdr.text[1] = Word("Bearer") /\ hdr.text[2] = Space /\ hdr.text[3] # Space

\* C4 (the claim as stated): a request to a protected route whose
\* Authorization header is missing or is not of the form 'Bearer <token>' is
\* answered 403 'Token is required'.
C4_OnlyBearerForm ==
  \A r \in Slots :
    (req[r].route \in ProtectedRoutes /\ ~BearerForm(req[r].hdr)) =>
      (req[r].status = 403 /\ req[r].msg = "Token is required")

\* the header carries a token that login has issued and that is fresh at t
CarriesFreshToken(hdr, t) ==
  \E tok \in issued :
    /\ \E i \in 1..Len(hdr.text) : hdr.text[i] = TokAtom(tok)
    /\ t < tok.exp

\* C5: every restaurant route and DELETE /users/me is behind the
\* middleware: a request that carries no verifying token is answered 403
\* without data and never reaches its handler, and the collections change
\* only in a step of a signup or of a handler that was let through; signup,
\* login and logout are never refused for a token.
C5_Guarded ==
  /\ [](\A r \in Slots :
          (req[r].route \in ProtectedRoutes /\ req[r].user = NoTok) =>
            (req[r].status = 403 /\ req[r].stage = "done" /\ req[r].docs = {}
             /\ req[r].next = 0))
  /\ [](\A r \in Slots :
          req[r].route \in OpenRoutes => (req[r].status # 403 /\ req[r].user = NoTok))
  /\ [][\A r \in Slots :
          (Arrives(r) /\ req'[r].route \in ProtectedRoutes
             /\ ~CarriesFreshToken(req'[r].hdr, now)) =>
            (req'[r].status = 403 /\ req'[r].stage = "done")]_vars
  /\ [][(restaurants' # restaurants \/ users' # users) =>
          \E r \in Slots :
            /\ req'[r] # req[r]
            /\ \/ req[r].route = "signup"
               \/ /\ req[r].route \in ProtectedRoutes
                  /\ req[r].stage = "op" /\ req[r].user # NoTok]_vars

\* C5 witness: a DELETE /restaurants/:id without a header has been refused
\* while the restaurant it names is stored
C5_Witness ==
  /\ req[1].route = "delete" /\ req[1].hdr = NoHeader /\ req[1].status = 403
  /\ \E d \in restaurants : d.id = req[1].id

\* what the client sees of an answered request
Response(q) == [status |-> q.status, msg |-> q.msg, token |-> q.token, docs |-> q.docs]

\* C6: login answers with a token exactly when its lookup finds a stored
\* user with the given email and the given password matches that user's
\* hash; an unknown email and a wrong password get the same 401 response;
\* no step of a login changes what is stored.
C6_Login ==
  /\ [][\A r \in Slots :
          (req[r].route = "login" /\ req[r].stage = "findOne"
             /\ req'[r].stage \in {"compare", "done"}) =>
            IF \E u \in users : u.email = req[r].email
              THEN /\ req'[r].stage = "compare" /\ req'[r].status = 0
                   /\ req'[r].tmp \in users /\ req'[r].tmp.email = req[r].email
              ELSE /\ req'[r].status = 401 /\ req'[r].token = NoTok]_vars
  /\ [][\A r \in Slots :
          (req[r].route = "login" /\ req[r].stage = "compare" /\ req'[r].stage = "done") =>
            IF req[r].tmp.password.digest
                 = <<req[r].password, req[r].tmp.password.salt, SaltRounds>>
              THEN /\ req'[r].status = 200
                   /\ req'[r].token \in issued' /\ req'[r].token.sig = JWT_SECRET
              ELSE /\ req'[r].status = 401 /\ req'[r].token = NoTok]_vars
  /\ [](\A r \in Slots, s \in Slots :
          (req[r].route = "login" /\ req[r].status # 200 /\ req[r].stage = "done"
             /\ req[s].route = "login" /\ req[s].status # 200 /\ req[s].stage = "done") =>
            /\ Response(req[r]) = Response(req[s])
            /\ req[r].status = 401)
  /\ [][(\E r \in Slots : req'[r] # req[r] /\ "login" \in {req[r].route, req'[r].route}
                          /\ req'[r] # Idle) =>
          UNCHANGED <<users, nextUid, restaurants, nextRid>>]_vars

\* C6 witness: two logins have been answered 401, one for an unknown email
\* and one for a wrong password of a stored user
C6_Witness ==
  /\ req[1].route = "login" /\ req[1].status = 401 /\ req[1].tmp = NoUser
  /\ req[2].route = "login" /\ req[2].status = 401 /\ req[2].tmp \in users

\* C8: POST /logout always answers 200 and changes nothing on the server,
\* and a token that login has issued is accepted by every protected route
\* at every time before its expiry, also after it was sent with a logout.
C8_LogoutRevokesNothing ==
  /\ [][\A r \in Slots :
          (Arrives(r) /\ req'[r].route = "logout") =>
            /\ req'[r].status = 200 /\ req'[r].stage = "done"
            /\ UNCHANGED <<users, nextUid, restaurants, nextRid, issued, now>>]_vars
  /\ [][\A r \in Slots :
          (Arrives(r) /\ req'[r].route \in ProtectedRoutes) =>
            \A tok \in issued :
              (req'[r].hdr = Bearer(tok) /\ now < tok.exp) =>
                (req'[r].stage = "op" /\ req'[r].status = 0 /\ req'[r].user = tok)]_vars

\* C8 witness: a protected route has let in a token that had been sent
\* with a logout before
C8_Witness ==
  /\ req[1].route = "create" /\ req[1].stage = "op"
  /\ req[1].user \in loggedOut
  /\ now > 0

ScenarioStatuses == <<201, 200, 200, 403, 200, 401>>

\* C10: from a store without user e1, signup(e1,p1), login(e1,p1), GET
\* /restaurants with the token, GET /restaurants without a header, DELETE
\* /users/me with the token and login(e1,p1) again, all within the hour,
\* are answered 201, 200, 200, 403, 200, 401; once the self-delete has
\* succeeded no user with e1 is stored.
C10_Scenario ==
  now < ExpiresIn =>
    /\ \A i \in 1..Len(trace) : trace[i] = ScenarioStatuses[i]
    /\ Len(trace) >= 5 => ~\E u \in users : u.email = "e1"

\* C10 witness: the scenario has run to its end within the hour
C10_Witness == Len(trace) = 6 /\ now < ExpiresIn /\ now > 0

(* ======================= the claims, C11 .. C18 ======================= *)

\* slot r's handler gets the answer of its store call in this step
StoreAnswers(r, route) ==
  /\ req[r].route = route /\ req[r].stage = "op"
  /\ req'[r].stage = "done"

Stored(id) == {d \in restaurants : d.id = id}

\* C11 (the claim as stated): when GET, PUT or DELETE /restaurants/:id with
\* a valid token carries an identifier that resolves to no stored
\* restaurant, whatever its form, the answer is 404 and the restaurant
\* collection is unchanged.
C11_UnresolvedIdIs404 ==
  [][\A r \in Slots : \A route \in {"get", "put", "delete"} :
       (StoreAnswers(r, route) /\ Stored(req[r].id) = {})
       => /\ req'[r].status = 404
          /\ restaurants' = restaurants]_vars

\* C12: DELETE /restaurants/:id on a stored restaurant answers 200 and
\* removes that restaurant and no other; with a well-formed identifier that
\* is not stored (never created, or deleted before) it answers 404 and
\* changes nothing; once a delete is answered 200 its identifier is stored
\* no more, and every other delete of that identifier, overlapping or later,
\* is answered 404.
C12_DeleteOnce ==
  /\ [][\A r \in Slots :
          StoreAnswers(r, "delete") /\ req[r].id # BadId
          => IF Stored(req[r].id) # {}
               THEN /\ req'[r].status = 200
                    /\ restaurants' = restaurants \ Stored(req[r].id)
                    /\ Cardinality(restaurants') = Cardinality(restaurants) - 1
               ELSE /\ req'[r].status = 404
                    /\ req'[r].msg = "Restaurant not found"
                    /\ restaurants' = restaurants]_vars
  /\ [](\A r \in Slots :
          req[r].route = "delete" /\ req[r].status = 200
          => /\ Stored(req[r].id) = {}
             /\ \A s \in Slots \ {r} :
                  req[s].route = "delete" /\ req[s].id = req[r].id
                  /\ req[s].stage = "done"
                  => req[s].status = 404)

\* C12 witness: two deletes of one stored restaurant overlapped; one was
\* answered 200, the other 404, and the other restaurant is still stored
C12_Witness ==
  \E r \in Slots, s \in Slots :
    /\ req[r].route = "delete" /\ req[r].status = 200
    /\ req[s].route = "delete" /\ req[s].status = 404
    /\ req[s].id = req[r].id
    /\ \E d \in restaurants : d.id # req[r].id /\ d.name = <<"A", "b">>

\* the document that holds exactly the fields of the body, under id
Replaced(id, body) == [id |-> id, name |-> body.name, cuisine |-> body.cuisine]

\* C13 (the claim as stated): PUT /restaurants/:id on a stored restaurant
\* leaves, under the same identifier, a document with exactly the fields of
\* the request body (a stored field absent from the body is gone), answers
\* with that document, and leaves every other restaurant unchanged.
C13_PutReplaces ==
  [][\A r \in Slots :
       StoreAnswers(r, "put") /\ Stored(req[r].id) # {}
       => /\ restaurants' = (restaurants \ Stored(req[r].id))
                              \cup {Replaced(req[r].id, req[r].body)}
          /\ req'[r].status = 200
          /\ req'[r].docs = {Replaced(req[r].id, req[r].body)}]_vars

\* the value occurs in the field as a substring, letter case ignored
ContainsIgnoringCase(value, field) ==
  /\ field # Absent
  /\ \E k \in 0..(Len(field) - Len(value)) :
       \A i \in 1..Len(value) : Lower(value[i]) = Lower(field[k + i])

\* the restaurants the claim has a search return
SubstringResult(q) ==
  {d \in restaurants :
     /\ Supplied(q.name) => ContainsIgnoringCase(q.name, d.name)
     /\ Supplied(q.cuisine) => ContainsIgnoringCase(q.cuisine, d.cuisine)}

\* C14 (the claim as stated): GET /restaurants/search returns exactly the
\* stored restaurants whose name and cuisine contain, as a substring and
\* ignoring letter case, the value of each supplied parameter (a parameter
\* not supplied, or empty, constrains nothing); the answer is 404 exactly
\* when that set is empty and 200 with the set otherwise.
C14_SearchIsSubstring ==
  [][\A r \in Slots :
       StoreAnswers(r, "search")
       => IF SubstringResult(req[r].body) = {}
            THEN req'[r].status = 404
            ELSE /\ req'[r].status = 200
                 /\ req'[r].docs = SubstringResult(req[r].body)]_vars

\* C15 (the claim as stated): in every restaurant operation (create, list,
\* get one, update, delete, search) a store call that fails is answered 500,
\* the handler ends there without calling the store again, and the
\* restaurant collection is unchanged.
C15_StoreFailureIs500 ==
  [][\A r \in Slots :
       RestaurantFails(r)
       => /\ req'[r].status = 500
          /\ req'[r].stage = "done"
          /\ restaurants' = restaurants]_vars

\* C16: a stored user keeps its email and its password hash for as long as
\* it is stored, and the user collection changes only by a signup answered
\* 201, which adds one user (a new id, the email and a hash of the password
\* of that request), and by a DELETE /users/me answered 200, which removes
\* one user.
C16_UsersChangeOnlyBySignupAndSelfDelete ==
  [][/\ \A u \in users, v \in users' : v.id = u.id => v = u
     /\ users' # users
        => \/ \E r \in Slots :
                /\ req[r].route = "signup" /\ req'[r].status = 201
                /\ \A u \in users : u.id # req[r].tmp.id
                /\ req[r].tmp.email = req[r].email
                /\ BcryptCompare(req[r].password, req[r].tmp.password)
                /\ users' = users \cup {req[r].tmp}
           \/ \E r \in Slots :
                /\ req[r].route = "deleteMe" /\ req'[r].status = 200
                /\ \E u \in users : users' = users \ {u}]_vars

\* C16 witness: the first user was removed by a self-delete; the second
\* was created, logged in, created a restaurant, and is stored as created
C16_Witness ==
  /\ \E u \in users : u.id = 2 /\ u.email = "e1" /\ BcryptCompare("p1", u.password)
  /\ \E t \in issued : t.userId = 2
  /\ req[1].route = "create" /\ req[1].status = 201

\* C17: the identity a DELETE /users/me handler works with is the claims of
\* the token in the header of its own request; the handler removes no user
\* but the one with that id, removes that one when it answers 200, leaves
\* the restaurants and every other request as they are, also while a
\* self-delete with another user's token is in flight.
C17_SelfDeleteRemovesOwnUser ==
  /\ [](\A r \in Slots :
          req[r].route = "deleteMe" /\ req[r].stage = "op"
          => req[r].user = JwtDecoded(ExtractToken(req[r].hdr)))
  /\ [][\A r \in Slots :
          StoreAnswers(r, "deleteMe")
          => LET own == {u \in users : u.id = JwtDecoded(ExtractToken(req[r].hdr)).userId}
             IN /\ users' \in {users, users \ own}
                /\ req'[r].status = 200 <=> (own # {} /\ users' = users \ own)
                /\ Cardinality(own) <= 1
                /\ restaurants' = restaurants
                /\ \A s \in Slots \ {r} : req'[s] = req[s]]_vars

\* C17 witness: self-deletes of two users overlap; the first was answered
\* 200 and its user is gone, the second is past the middleware, carries the
\* other user's id, and that user is still stored
C17_Witness ==
  \E r \in Slots, s \in Slots :
    /\ req[r].route = "deleteMe" /\ req[r].status = 200
    /\ req[s].route = "deleteMe" /\ req[s].stage = "op"
    /\ req[s].user.userId # req[r].user.userId
    /\ \E u \in users : u.id = req[s].user.userId
    /\ \A u \in users : u.id # req[r].user.userId

\* no user with the id of the token's claims is stored
UserGone(tok) == \A u \in users : u.id # tok.userId

\* C18: the middleware accepts an issued, unexpired token whose user is
\* stored no more (removed by DELETE /users/me) on every protected route,
\* create, update and delete of restaurants included, and attaches its
\* claims; a DELETE /users/me with such a token, when the store answers, is
\* answered 404 'User not found' and changes neither collection.
C18_TokenOutlivesUser ==
  /\ [][\A r \in Slots : \A tok \in issued :
          ( /\ Arrives(r)
            /\ req'[r].route \in ProtectedRoutes
            /\ req'[r].hdr = Bearer(tok)
            /\ now < tok.exp
            /\ UserGone(tok) )
          => /\ req'[r].stage = "op"
             /\ req'[r].user = tok]_vars
  /\ [][\A r \in Slots :
          ( /\ StoreAnswers(r, "deleteMe")
            /\ UserGone(req[r].user)
            /\ ~UsersFindByIdAndDeleteFails(r) )
          => /\ req'[r].status = 404
             /\ req'[r].msg = "User not found"
             /\ users' = users
             /\ restaurants' = restaurants]_vars

\* C18 witness: after its user deleted itself, the token was accepted on
\* POST /restaurants and the restaurant was stored
C18_Witness ==
  /\ req[1].route = "create" /\ req[1].status = 201
  /\ req[1].user \in issued
  /\ UserGone(req[1].user)
  /\ req[1].doc \in restaurants

==========================================================================
